---- MODULE Spec2Model ----
(***************************************************************************)
(* Model of the progression engine of solo-leveling: the missions store    *)
(* and the profile store (src/src/stores/missionsStore.ts), the completion *)
(* handler of MissionsDisplay.tsx, and the pure functions getXPReward,     *)
(* selectDifficulty, checkScheduleAvailability and calculateLevel.         *)
(*                                                                         *)
(* The objectives store and the schedules store (schedulesStore.ts) and    *)
(* the foreign keys of the schema are modelled as far as the missions      *)
(* depend on them.                                                         *)
(*                                                                         *)
(* Nine specifications over the same state:                                *)
(*   Spec            mission completion: the missions and profile stores   *)
(*                   against the remote tables, one action per handler,    *)
(*                   every remote request succeeding or failing at the     *)
(*                   point the code awaits it;                             *)
(*   SpecProfile     the profile store alone: addXP, updateStats and the   *)
(*                   profile form of the settings page, from a new user's  *)
(*                   profile row or one whose stats have been saved;       *)
(*   SpecGen         generateDailyMissions behind its availability gate;   *)
(*   SpecObjectives  the objectives store: createObjective,                *)
(*                   updateObjective, incrementProgress;                   *)
(*   SpecLinks       missions that reference an objective and a schedule,  *)
(*                   and the deletion of each of the three;                *)
(*   SpecForms       the forms that create objectives and schedules;       *)
(*   SpecOverlap     calls of markMissionComplete and addXP whose remote   *)
(*                   requests overlap, one step per request sent, served   *)
(*                   and received;                                         *)
(*   SpecToggle      calls of toggleSchedule that overlap;                 *)
(*   SpecPure        the pure functions, and the level progression of the  *)
(*                   statistics page, applied to inputs drawn from bounded *)
(*                   sets.                                                 *)
(***************************************************************************)
EXTENDS Integers, Sequences, FiniteSets, TLC

(***************************************************************************)
(* Bounds of the model.                                                    *)
(***************************************************************************)
MaxLevel == 11
MaxStat == 15
MaxPureXP == 450
MaxDay == 1
MaxSchedules == 2
MaxOps == 4
MaxFailures == 1
MaxManualMissions == 1
MaxTemplateIndex == 2
MaxMissionRows == 3
MaxEntityRows == 1
MaxGenOps == 3
MaxCalls == 2
MaxHistory == 2

Null == "null"

\* An optional value (T | null | undefined): <<>> when absent, <<v>> when present.
None == <<>>
Some(v) == <<v>>
IsSome(o) == Len(o) > 0

Difficulties == {"easy", "medium", "hard"}
Categories == <<"sport", "studies", "routine">>
Statuses == {"pending", "in_progress", "completed", "failed"}
StatKeys == <<"strength", "intelligence", "motivation">>
NoStats == [strength |-> 0, intelligence |-> 0, motivation |-> 0]
StatKeySet == {StatKeys[k] : k \in 1..Len(StatKeys)}

(***************************************************************************)
(* getXPReward.  The code multiplies IEEE doubles:                         *)
(*   baseXP[d] * (1 + (userLevel - 1) * 0.1) * getDifficultyMultiplier(d)  *)
(* The model keeps the two multipliers as exact fractions: the level       *)
(* multiplier in tenths and the difficulty multiplier in halves, so the    *)
(* product is a number of twentieths and Math.floor is \div 20.  (For the  *)
(* levels of the model the double product and the exact product have the   *)
(* same floor.)                                                            *)
(***************************************************************************)
\* Mutant: medium pays the hard multiplier.
getDifficultyMultiplierHalves_MediumAsHard(difficulty) ==
    CASE difficulty = "easy" -> 2
      [] difficulty = "medium" -> 4
      [] difficulty = "hard" -> 4

getDifficultyMultiplierHalves(difficulty) ==
    CASE difficulty = "easy" -> 2
      [] difficulty = "medium" -> 3
      [] difficulty = "hard" -> 4

baseXP == [easy |-> 10, medium |-> 26, hard |-> 51]

levelMultiplierTenths(userLevel) == 10 + (userLevel - 1) * 1

getXPReward(difficulty, userLevel) ==
    (baseXP[difficulty] * levelMultiplierTenths(userLevel)
        * getDifficultyMultiplierHalves(difficulty)) \div 20

(***************************************************************************)
(* selectDifficulty.  statLevel = totalStats / 30 is kept as the fraction  *)
(* totalStats/30; statLevel < 0.5 is 2*totalStats < 30 and statLevel < 1.5 *)
(* is 2*totalStats < 90.                                                   *)
(***************************************************************************)
totalStats(stats) == stats.strength + stats.intelligence + stats.motivation

statLevelBelowHalves(stats, halves) == 2 * totalStats(stats) < 30 * halves

\* Mutant: the two conditions of a tier AND'd instead of OR'd.
selectDifficulty_And(userLevel, stats) ==
    IF userLevel <= 3 /\ statLevelBelowHalves(stats, 1) THEN "easy"
    ELSE IF userLevel <= 7 /\ statLevelBelowHalves(stats, 3) THEN "medium"
    ELSE "hard"

selectDifficulty(userLevel, stats) ==
    IF userLevel <= 3 \/ statLevelBelowHalves(stats, 1) THEN "easy"
    ELSE IF userLevel <= 7 \/ statLevelBelowHalves(stats, 3) THEN "medium"
    ELSE "hard"

(***************************************************************************)
(* checkScheduleAvailability.  An instant is a number of hours since day   *)
(* 0, 00:00; a date string "YYYY-MM-DD" parses to midnight of its day; the *)
(* clock's hour of day is now % 24.                                        *)
(***************************************************************************)
DateOf(day) == day * 24

getHours(now) == now % 24

\* Mutant: the hour window closed at 20:00 exclusive.
scheduleCovers_Before20(schedule, now) ==
    /\ schedule.is_active
    /\ now >= DateOf(schedule.start_date)
    /\ (IsSome(schedule.end_date) => now <= DateOf(schedule.end_date[1]))
    /\ getHours(now) >= 8 /\ getHours(now) < 20

scheduleCovers(schedule, now) ==
    IF ~schedule.is_active THEN FALSE
    ELSE LET startDate == DateOf(schedule.start_date)
             endDate == IF IsSome(schedule.end_date)
                        THEN Some(DateOf(schedule.end_date[1])) ELSE None
         IN IF now < startDate \/ (IsSome(endDate) /\ now > endDate[1])
            THEN FALSE
            ELSE getHours(now) >= 8 /\ getHours(now) <= 20

checkScheduleAvailability(schedules, now) ==
    \E i \in 1..Len(schedules) : scheduleCovers(schedules[i], now)

(***************************************************************************)
(* calculateLevel: Math.floor(Math.sqrt(xp / 100)) + 1.  floorSqrt100 is   *)
(* the floor of the square root of xp/100, found by counting up.           *)
(***************************************************************************)
RECURSIVE floorSqrt100From(_, _)
floorSqrt100From(xp, k) ==
    IF 100 * (k + 1) * (k + 1) > xp THEN k ELSE floorSqrt100From(xp, k + 1)

floorSqrt100(xp) == floorSqrt100From(xp, 0)

\* Mutant: the + 1 forgotten.
calculateLevel_NoPlusOne(xp) == floorSqrt100(xp)

calculateLevel(xp) == floorSqrt100(xp) + 1

(***************************************************************************)
(* The level progression of ProgressStats.fetchStats: one point per entry  *)
(* of the mission history (oldest first), with the cumulative xp and the   *)
(* level the page derives from it, then the first point of each date.      *)
(***************************************************************************)
RECURSIVE levelProgressionFrom(_, _)
levelProgressionFrom(history, currentXP) ==
    IF history = <<>> THEN <<>>
    ELSE LET xp == currentXP + Head(history).xp_gained
             currentLevel == (xp \div 100) + 1
         IN <<[date |-> Head(history).created_at, level |-> currentLevel,
               xp |-> xp]>>
            \o levelProgressionFrom(Tail(history), xp)

levelProgression(history) == levelProgressionFrom(history, 0)

RECURSIVE uniqueProgressionFrom(_, _)
uniqueProgressionFrom(list, index) ==
    IF index > Len(list) THEN <<>>
    ELSE (IF \A j \in 1..(index - 1) : list[j].date # list[index].date
          THEN <<list[index]>> ELSE <<>>)
         \o uniqueProgressionFrom(list, index + 1)

uniqueProgression(list) == uniqueProgressionFrom(list, 1)


(***************************************************************************)
(* The stores, over a snapshot s of the whole state (the two zustand       *)
(* stores and the remote tables).  A store function gives the set of       *)
(* states the call can end in: every remote request may fail or succeed,   *)
(* and Math.random may pick any element.  Every remote request appends one *)
(* entry to s.calls, the requests the running handler has issued.          *)
(***************************************************************************)
Merge(a, b) ==
    [f \in (DOMAIN a) \cup (DOMAIN b) |-> IF f \in DOMAIN b THEN b[f] ELSE a[f]]

\* The failed requests among calls.
Failed(calls) == Cardinality({k \in 1..Len(calls) : ~calls[k].ok})

\* The model follows at most MaxFailures failed requests.
WithinFailures(s) == s.failureCount + Failed(s.calls) <= MaxFailures

\* The states g leads to from the states of S.
Then(S, g(_)) == UNION {g(s) : s \in {t \in S : WithinFailures(t)}}

Call(s, table, verb, ok, data) ==
    [s EXCEPT !.calls =
        Append(@, [table |-> table, verb |-> verb, ok |-> ok, data |-> data])]

RemoteError == "remote error"

\* list.find((m) => m.id === id): the index of the first match, 0 if none
find(list, id) ==
    IF \E i \in 1..Len(list) : list[i].id = id
    THEN CHOOSE i \in 1..Len(list) :
            list[i].id = id /\ \A j \in 1..(i - 1) : list[j].id # id
    ELSE 0

RECURSIVE Reverse(_)
Reverse(seq) ==
    IF seq = <<>> THEN <<>> ELSE Append(Reverse(Tail(seq)), Head(seq))

\* fetchMissionHistory: select * from mission_history order by created_at desc
fetchMissionHistory(s) ==
    LET s1 == [s EXCEPT !.loading = TRUE, !.error = Null]
        failed == [Call(s1, "mission_history", "select", FALSE, <<>>)
                      EXCEPT !.error = RemoteError, !.loading = FALSE]
        done == [Call(s1, "mission_history", "select", TRUE, <<>>)
                    EXCEPT !.missionHistory = Reverse(s.dbHistory), !.loading = FALSE]
    IN {failed, done}

\* fetchMissions: select * from missions order by created_at desc
fetchMissions(s) ==
    LET s1 == [s EXCEPT !.loading = TRUE, !.error = Null]
        failed == [Call(s1, "missions", "select", FALSE, <<>>)
                      EXCEPT !.error = RemoteError, !.loading = FALSE]
        done == [Call(s1, "missions", "select", TRUE, <<>>)
                    EXCEPT !.missions = Reverse(s.dbMissions), !.loading = FALSE]
    IN {failed, done}

\* trackMissionHistory.  The insert cannot succeed when the mission row is
\* gone (mission_id REFERENCES missions(id)); its failure is only logged.
trackMissionHistory(s, missionId, action, oldStatus, newStatus, xpGained) ==
    LET entry == [mission_id |-> missionId, action |-> action,
                  old_status |-> oldStatus, new_status |-> newStatus,
                  xp_gained |-> xpGained]
        failed == Call(s, "mission_history", "insert", FALSE, entry)
        inserted == [Call(s, "mission_history", "insert", TRUE, entry)
                        EXCEPT !.dbHistory = Append(@, entry)]
    IN {failed}
       \cup (IF find(s.dbMissions, missionId) # 0
             THEN fetchMissionHistory(inserted) ELSE {})

\* A reference column (objective_id UUID REFERENCES objectives(id), ...) is
\* null or holds the id of a row of the table it references.
References(table, ref) == IsSome(ref) => find(table, ref[1]) # 0

\* createMission
createMission(s, input) ==
    LET s1 == [s EXCEPT !.loading = TRUE, !.error = Null]
        failed == [Call(s1, "missions", "insert", FALSE, input)
                      EXCEPT !.error = RemoteError, !.loading = FALSE]
        data == Merge([id |-> s.nextId, status |-> "pending",
                       objective_id |-> None, schedule_id |-> None], input)
        created == [Call(s1, "missions", "insert", TRUE, input)
                       EXCEPT !.dbMissions = Append(@, data),
                              !.nextId = @ + 1,
                              !.missions = <<data>> \o @,
                              !.loading = FALSE]
    IN {failed}
       \cup (IF References(s.dbObjectives, data.objective_id)
                /\ References(s.dbSchedules, data.schedule_id)
             THEN trackMissionHistory(created, data.id, "created", Null, "pending", 0)
             ELSE {})

\* updateMission.  .single() makes the update fail when no row has the id.
updateMission(s, id, updates) ==
    LET s1 == [s EXCEPT !.loading = TRUE, !.error = Null]
        i == find(s.missions, id)
        mission == s.missions[i]
        row == find(s.dbMissions, id)
        failed == [Call(s1, "missions", "update", FALSE, updates)
                      EXCEPT !.error = RemoteError, !.loading = FALSE]
        data == Merge(s.dbMissions[row], updates)
        updated == [Call(s1, "missions", "update", TRUE, updates)
                       EXCEPT !.dbMissions[row] = data,
                              !.missions = [j \in 1..Len(@) |->
                                              IF @[j].id = id THEN data ELSE @[j]],
                              !.loading = FALSE]
    IN IF i = 0 THEN {s1}
       ELSE {failed}
            \cup (IF row = 0 THEN {}
                  ELSE IF "status" \in DOMAIN updates /\ updates.status # mission.status
                  THEN trackMissionHistory(updated, id, "updated", mission.status,
                                           updates.status, 0)
                  ELSE {updated})

\* deleteMission.  The rows of mission_history that reference the mission go
\* with it (mission_id ... ON DELETE CASCADE).
deleteMission(s, id) ==
    LET s1 == [s EXCEPT !.loading = TRUE, !.error = Null]
        other(m) == m.id # id
        otherMission(h) == h.mission_id # id
        failed == [Call(s1, "missions", "delete", FALSE, <<>>)
                      EXCEPT !.error = RemoteError, !.loading = FALSE]
        deleted == [Call(s1, "missions", "delete", TRUE, <<>>)
                       EXCEPT !.dbMissions = SelectSeq(@, other),
                              !.dbHistory = SelectSeq(@, otherMission),
                              !.missions = SelectSeq(@, other),
                              !.loading = FALSE]
    IN {failed, deleted}

(***************************************************************************)
(* The objectives store and the schedules store (schedulesStore.ts).       *)
(***************************************************************************)
\* Math.min
min(a, b) == IF a < b THEN a ELSE b

\* createObjective.  current_value and status take the column defaults.
createObjective(s, input) ==
    LET s1 == [s EXCEPT !.objectivesLoading = TRUE, !.objectivesError = Null]
        failed == [Call(s1, "objectives", "insert", FALSE, input)
                      EXCEPT !.objectivesError = RemoteError,
                             !.objectivesLoading = FALSE]
        data == Merge([id |-> s.nextId, current_value |-> 0, status |-> "active"],
                      input)
        created == [Call(s1, "objectives", "insert", TRUE, input)
                       EXCEPT !.dbObjectives = Append(@, data),
                              !.nextId = @ + 1,
                              !.objectives = <<data>> \o @,
                              !.objectivesLoading = FALSE]
    IN {failed, created}

\* updateObjective.  .single() makes the update fail when no row has the id.
updateObjective(s, id, updates) ==
    LET s1 == [s EXCEPT !.objectivesLoading = TRUE, !.objectivesError = Null]
        row == find(s.dbObjectives, id)
        failed == [Call(s1, "objectives", "update", FALSE, updates)
                      EXCEPT !.objectivesError = RemoteError,
                             !.objectivesLoading = FALSE]
        data == Merge(s.dbObjectives[row], updates)
        updated == [Call(s1, "objectives", "update", TRUE, updates)
                       EXCEPT !.dbObjectives[row] = data,
                              !.objectives = [j \in 1..Len(@) |->
                                                IF @[j].id = id THEN data ELSE @[j]],
                              !.objectivesLoading = FALSE]
    IN {failed} \cup (IF row = 0 THEN {} ELSE {updated})

\* missions.objective_id ... ON DELETE SET NULL
objectiveSetNull(rows, id) ==
    [j \in 1..Len(rows) |->
        IF rows[j].objective_id = Some(id)
        THEN [rows[j] EXCEPT !.objective_id = None] ELSE rows[j]]

\* missions.schedule_id ... ON DELETE SET NULL
scheduleSetNull(rows, id) ==
    [j \in 1..Len(rows) |->
        IF rows[j].schedule_id = Some(id)
        THEN [rows[j] EXCEPT !.schedule_id = None] ELSE rows[j]]

\* Mutant: the missions that reference the objective are deleted with it.
deleteObjective_Cascade(s, id) ==
    LET s1 == [s EXCEPT !.objectivesLoading = TRUE, !.objectivesError = Null]
        other(o) == o.id # id
        notLinked(m) == m.objective_id # Some(id)
        failed == [Call(s1, "objectives", "delete", FALSE, <<>>)
                      EXCEPT !.objectivesError = RemoteError,
                             !.objectivesLoading = FALSE]
        deleted == [Call(s1, "objectives", "delete", TRUE, <<>>)
                       EXCEPT !.dbObjectives = SelectSeq(@, other),
                              !.dbMissions = SelectSeq(@, notLinked),
                              !.objectives = SelectSeq(@, other),
                              !.objectivesLoading = FALSE]
    IN {failed, deleted}

\* deleteObjective
deleteObjective(s, id) ==
    LET s1 == [s EXCEPT !.objectivesLoading = TRUE, !.objectivesError = Null]
        other(o) == o.id # id
        failed == [Call(s1, "objectives", "delete", FALSE, <<>>)
                      EXCEPT !.objectivesError = RemoteError,
                             !.objectivesLoading = FALSE]
        deleted == [Call(s1, "objectives", "delete", TRUE, <<>>)
                       EXCEPT !.dbObjectives = SelectSeq(@, other),
                              !.dbMissions = objectiveSetNull(@, id),
                              !.objectives = SelectSeq(@, other),
                              !.objectivesLoading = FALSE]
    IN {failed, deleted}

\* incrementProgress
incrementProgress(s, id, amount) ==
    LET i == find(s.objectives, id)
        objective == s.objectives[i]
        newValue == min(objective.current_value + amount, objective.target_value)
    IN IF i = 0 THEN {s}
       ELSE updateObjective(s, id, [current_value |-> newValue])

\* createSchedule.  is_active takes the column default.
createSchedule(s, input) ==
    LET s1 == [s EXCEPT !.schedulesLoading = TRUE, !.schedulesError = Null]
        failed == [Call(s1, "schedules", "insert", FALSE, input)
                      EXCEPT !.schedulesError = RemoteError,
                             !.schedulesLoading = FALSE]
        data == Merge([id |-> s.nextId, is_active |-> TRUE], input)
        created == [Call(s1, "schedules", "insert", TRUE, input)
                       EXCEPT !.dbSchedules = Append(@, data),
                              !.nextId = @ + 1,
                              !.schedules = <<data>> \o @,
                              !.schedulesLoading = FALSE]
    IN {failed, created}

\* deleteSchedule
deleteSchedule(s, id) ==
    LET s1 == [s EXCEPT !.schedulesLoading = TRUE, !.schedulesError = Null]
        other(o) == o.id # id
        failed == [Call(s1, "schedules", "delete", FALSE, <<>>)
                      EXCEPT !.schedulesError = RemoteError,
                             !.schedulesLoading = FALSE]
        deleted == [Call(s1, "schedules", "delete", TRUE, <<>>)
                       EXCEPT !.dbSchedules = SelectSeq(@, other),
                              !.dbMissions = scheduleSetNull(@, id),
                              !.schedules = SelectSeq(@, other),
                              !.schedulesLoading = FALSE]
    IN {failed, deleted}

\* The two values of a stat that are not integers: NaN, what undefined + 1
\* evaluates to, and null, what JSON carries in the place of NaN.  (Every
\* integer stat of the model is non-negative.)
NaN == -1

JsonNull == -2

\* stats[key] as an operand of +: undefined converts to NaN, null to 0
toNumber(stats, key) ==
    IF key \notin DOMAIN stats THEN NaN
    ELSE IF stats[key] = JsonNull THEN 0
    ELSE stats[key]

\* a + b on numbers
plus(a, b) == IF a = NaN \/ b = NaN THEN NaN ELSE a + b

\* JSON.stringify of the body of a profiles update
toJSON(updates) ==
    IF "stats" \notin DOMAIN updates THEN updates
    ELSE [updates EXCEPT !.stats =
            [k \in DOMAIN @ |-> IF @[k] = NaN THEN JsonNull ELSE @[k]]]

\* fetchProfile
fetchProfile(s) ==
    LET s1 == [s EXCEPT !.profileLoading = TRUE, !.profileError = Null]
        failed == [Call(s1, "profiles", "select", FALSE, <<>>)
                      EXCEPT !.profileError = RemoteError, !.profileLoading = FALSE]
        done == [Call(s1, "profiles", "select", TRUE, <<>>)
                    EXCEPT !.profile = Some(s.dbProfile), !.profileLoading = FALSE]
    IN {failed, done}

\* updateProfile
updateProfile(s, updates) ==
    LET s1 == [s EXCEPT !.profileLoading = TRUE, !.profileError = Null]
        failed == [Call(s1, "profiles", "update", FALSE, updates)
                      EXCEPT !.profileError = RemoteError, !.profileLoading = FALSE]
        done == [Call(s1, "profiles", "update", TRUE, updates)
                    EXCEPT !.dbProfile = Merge(@, toJSON(updates)),
                           !.profile = Some(Merge(s.profile[1], updates)),
                           !.profileLoading = FALSE]
    IN IF ~IsSome(s.profile) THEN {s} ELSE {failed, done}

\* Mutant: the level-up branch lost, xp always written alone.
addXP_XpOnly(s, amount) ==
    IF ~IsSome(s.profile) THEN {s}
    ELSE updateProfile(s, [xp |-> s.profile[1].xp + amount])

\* addXP.  On a level-up Math.random picks the stat to raise.
addXP(s, amount) ==
    IF ~IsSome(s.profile) THEN {s}
    ELSE LET profile == s.profile[1]
             newXP == profile.xp + amount
             newLevel == calculateLevel(newXP)
             newStats(randomStat) ==
                 Merge(profile.stats,
                       randomStat :> plus(toNumber(profile.stats, randomStat), 1))
         IN IF newLevel > profile.level
            THEN UNION {updateProfile(s, [level |-> newLevel, xp |-> newXP,
                                          stats |-> newStats(StatKeys[k])]) :
                           k \in 1..Len(StatKeys)}
            ELSE updateProfile(s, [xp |-> newXP])

\* updateStats
updateStats(s, stat, value) ==
    IF ~IsSome(s.profile) THEN {s}
    ELSE updateProfile(s, [stats |-> Merge(s.profile[1].stats, stat :> value)])

\* The profile's xp is higher in t than in s.
XpRaised(s, t) == IsSome(s.profile) /\ IsSome(t.profile) /\ t.profile[1].xp > s.profile[1].xp

\* Mutant: the completion is not recorded in the history.
markMissionComplete_NoHistory(s, id) ==
    LET i == find(s.missions, id)
        grant(s1) == addXP(s1, s.missions[i].xp_reward)
    IN IF i = 0 THEN {s}
       ELSE Then(updateMission(s, id, [status |-> "completed"]), grant)

\* markMissionComplete.  (xpGrantLog records each time its addXP raised
\* the profile's xp.)
markMissionComplete(s, id) ==
    LET i == find(s.missions, id)
        mission == s.missions[i]
        grant(s1) == {IF XpRaised(s1, s2)
                      THEN [s2 EXCEPT !.xpGrantLog = Append(@, id)] ELSE s2 :
                         s2 \in addXP(s1, mission.xp_reward)}
        track(s2) == trackMissionHistory(s2, id, "completed", mission.status,
                                         "completed", mission.xp_reward)
    IN IF i = 0 THEN {s}
       ELSE Then(Then(updateMission(s, id, [status |-> "completed"]), grant), track)

\* MissionsDisplay.handleCompleteMission.  `missions` is the list the
\* component rendered: the store's list when the button is pressed.
handleCompleteMission(s, missionId) ==
    LET missions == s.missions
        i == find(missions, missionId)
        addAgain(s1) == addXP(s1, IF i # 0 THEN missions[i].xp_reward ELSE 0)
    IN Then(markMissionComplete(s, missionId), addAgain)

getMissionTemplates(category) ==
    CASE category = "sport" ->
            << [title |-> "Morning Run", description |-> "Complete a 30-minute run"],
               [title |-> "Strength Training",
                description |-> "Do 3 sets of push-ups and squats"],
               [title |-> "Yoga Session", description |-> "Practice yoga for 20 minutes"],
               [title |-> "Cardio Workout",
                description |-> "Complete 45 minutes of cardio exercise"],
               [title |-> "Skill Building",
                description |-> "Learn a new exercise technique"] >>
      [] category = "studies" ->
            << [title |-> "Reading Session", description |-> "Read for 45 minutes"],
               [title |-> "Practice Problems", description |-> "Solve 20 math problems"],
               [title |-> "Language Learning",
                description |-> "Study vocabulary for 30 minutes"],
               [title |-> "Research Project",
                description |-> "Work on research for 1 hour"],
               [title |-> "Skill Practice",
                description |-> "Practice a new study technique"] >>
      [] category = "routine" ->
            << [title |-> "Meal Prep",
                description |-> "Prepare healthy meals for the day"],
               [title |-> "Cleaning Routine",
                description |-> "Clean your living space for 30 minutes"],
               [title |-> "Meditation", description |-> "Meditate for 15 minutes"],
               [title |-> "Journaling",
                description |-> "Write in your journal for 20 minutes"],
               [title |-> "Habit Building",
                description |-> "Practice a new daily habit"] >>

\* the date (day number) of now + 24 hours
Tomorrow(now) == (now + 24) \div 24

\* Mutant: every generated mission is easy, whatever the profile.
newMissionInput_EasyOnly(category, profile, now, index) ==
    LET randomTemplate == getMissionTemplates(category)[index]
    IN [title |-> randomTemplate.title,
        description |-> randomTemplate.description,
        category |-> category,
        difficulty |-> "easy",
        xp_reward |-> getXPReward("easy", profile.level),
        deadline |-> Tomorrow(now)]

newMissionInput(category, profile, now, index) ==
    LET randomTemplate == getMissionTemplates(category)[index]
        difficulty == selectDifficulty(profile.level, profile.stats)
        xpReward == getXPReward(difficulty, profile.level)
    IN [title |-> randomTemplate.title,
        description |-> randomTemplate.description,
        category |-> category,
        difficulty |-> difficulty,
        xp_reward |-> xpReward,
        deadline |-> Tomorrow(now)]

\* Mutant: the loop gives up at the first creation that failed.
RECURSIVE createMissions_StopAtFailure(_, _)
createMissions_StopAtFailure(S, newMissions) ==
    IF newMissions = <<>> THEN S
    ELSE LET create(s) == IF s.error # Null THEN {s}
                          ELSE createMission(s, Head(newMissions))
         IN createMissions_StopAtFailure(Then(S, create), Tail(newMissions))

RECURSIVE createMissions(_, _)
createMissions(S, newMissions) ==
    IF newMissions = <<>> THEN S
    ELSE LET create(s) == createMission(s, Head(newMissions))
         IN createMissions(Then(S, create), Tail(newMissions))

\* Mutant: the availability gate is not consulted.
generateDailyMissions_NoGate(s, profile, schedules, now) ==
    LET s1 == [s EXCEPT !.loading = TRUE, !.error = Null]
        newMissions ==
            [c \in 1..Len(Categories) |->
                newMissionInput(Categories[c], profile, now, 1)]
        finish(s2) == {[s2 EXCEPT !.loading = FALSE]}
    IN Then(createMissions({s1}, newMissions), finish)

\* generateDailyMissions.  Math.random picks one of the first
\* MaxTemplateIndex templates of each category.
generateDailyMissions(s, profile, schedules, now) ==
    LET s1 == [s EXCEPT !.loading = TRUE, !.error = Null]
        newMissions(templateIndex) ==
            [c \in 1..Len(Categories) |->
                newMissionInput(Categories[c], profile, now, templateIndex[c])]
        finish(s2) == {[s2 EXCEPT !.loading = FALSE]}
    IN IF ~checkScheduleAvailability(schedules, now)
       THEN {[s1 EXCEPT !.loading = FALSE]}
       ELSE UNION {Then(createMissions({s1}, newMissions(templateIndex)), finish) :
                      templateIndex \in [1..Len(Categories) -> 1..MaxTemplateIndex]}

(***************************************************************************)
(* State.                                                                  *)
(*   missions, missionHistory, loading, error     the missions store       *)
(*   profile, profileLoading, profileError        the profile store        *)
(*   dbMissions, dbHistory, dbProfile             the remote tables of the *)
(*                                                signed-in user           *)
(*   objectives, objectivesLoading, objectivesError   the objectives store *)
(*   schedules, schedulesLoading, schedulesError      the schedules store  *)
(*   dbObjectives, dbSchedules                    their remote tables      *)
(*   nextId       the id the remote store gives the next row it inserts    *)
(*   lastOp       the handler that ran last: its name, its mission id, its *)
(*                other arguments and the remote requests it issued, in    *)
(*                order                                                    *)
(*   xpGrantLog   the mission ids for which markMissionComplete's addXP    *)
(*                has raised the profile's xp, one entry per grant         *)
(*   opCount      the number of handlers run (bounds the exploration)      *)
(*   failureCount the number of remote requests that have failed (bounds   *)
(*                the exploration)                                         *)
(*   pureCall     one application of a pure function: its inputs and, once *)
(*                applied, its result (SpecPure)                           *)
(*   running      the calls that run concurrently (SpecOverlap,            *)
(*                SpecToggle), see there                                   *)
(***************************************************************************)
VARIABLES missions, missionHistory, loading, error,
          profile, profileLoading, profileError,
          dbMissions, dbHistory, dbProfile, nextId,
          lastOp, xpGrantLog, opCount, failureCount, pureCall,
          objectives, objectivesLoading, objectivesError, dbObjectives,
          schedules, schedulesLoading, schedulesError, dbSchedules,
          running

storeVars == <<missions, missionHistory, loading, error,
               profile, profileLoading, profileError,
               dbMissions, dbHistory, dbProfile, nextId,
               lastOp, xpGrantLog, opCount, failureCount,
               objectives, objectivesLoading, objectivesError, dbObjectives,
               schedules, schedulesLoading, schedulesError, dbSchedules>>

vars == <<storeVars, pureCall, running>>

(***************************************************************************)
(* The state after construction: the stores empty (missionsStore.ts 92-95, *)
(* 305-307; schedulesStore.ts 17-19, 130-132); the remote tables hold the  *)
(* user's profile row and nothing else.  InitialProfile is the row of a    *)
(* user who has not gained xp yet and whose stats the settings page has    *)
(* saved as numbers.                                                       *)
(***************************************************************************)
\* No pure function is being applied.
NoPureCall == [call |-> [fn |-> Null], done |-> FALSE, result |-> Null]

\* The calls that can run concurrently, and a call not made yet.
Calls == 1..MaxCalls

Idle ==
    [op |-> "idle", pc |-> "idle", id |-> 0, mission |-> <<>>, amount |-> 0,
     captured |-> <<>>, body |-> <<>>, resp |-> "none", data |-> <<>>,
     failed |-> FALSE]

NoCalls == [p \in Calls |-> Idle]

InitialProfile == [level |-> 1, xp |-> 0, stats |-> NoStats]

\* The row of a new user: level, xp and stats take the column defaults 1, 0
\* and '{}' (handle_new_user inserts id and username only).  <<>> is the
\* record without fields.
NewUserProfile == [level |-> 1, xp |-> 0, stats |-> <<>>]

StoreInit ==
    /\ missions = <<>>
    /\ missionHistory = <<>>
    /\ loading = FALSE
    /\ error = Null
    /\ profile = None
    /\ profileLoading = FALSE
    /\ profileError = Null
    /\ dbMissions = <<>>
    /\ dbHistory = <<>>
    /\ dbProfile = InitialProfile
    /\ nextId = 1
    /\ lastOp = [op |-> "init", id |-> 0, args |-> <<>>, calls |-> <<>>]
    /\ xpGrantLog = <<>>
    /\ opCount = 0
    /\ failureCount = 0
    /\ objectives = <<>>
    /\ objectivesLoading = FALSE
    /\ objectivesError = Null
    /\ dbObjectives = <<>>
    /\ schedules = <<>>
    /\ schedulesLoading = FALSE
    /\ schedulesError = Null
    /\ dbSchedules = <<>>

\* The snapshot the store functions work on, and its write-back.
Now ==
    [missions |-> missions, missionHistory |-> missionHistory,
     loading |-> loading, error |-> error,
     profile |-> profile, profileLoading |-> profileLoading,
     profileError |-> profileError,
     dbMissions |-> dbMissions, dbHistory |-> dbHistory, dbProfile |-> dbProfile,
     nextId |-> nextId, xpGrantLog |-> xpGrantLog,
     objectives |-> objectives, objectivesLoading |-> objectivesLoading,
     objectivesError |-> objectivesError, dbObjectives |-> dbObjectives,
     schedules |-> schedules, schedulesLoading |-> schedulesLoading,
     schedulesError |-> schedulesError, dbSchedules |-> dbSchedules,
     failureCount |-> failureCount, calls |-> <<>>]

\* Handler op, called with mission id `id` and arguments args, ends in s.
RanWith(op, id, args, s) ==
    /\ opCount < MaxOps
    /\ WithinFailures(s)
    /\ failureCount' = failureCount + Failed(s.calls)
    /\ opCount' = opCount + 1
    /\ missions' = s.missions
    /\ missionHistory' = s.missionHistory
    /\ loading' = s.loading
    /\ error' = s.error
    /\ profile' = s.profile
    /\ profileLoading' = s.profileLoading
    /\ profileError' = s.profileError
    /\ dbMissions' = s.dbMissions
    /\ dbHistory' = s.dbHistory
    /\ dbProfile' = s.dbProfile
    /\ nextId' = s.nextId
    /\ xpGrantLog' = s.xpGrantLog
    /\ objectives' = s.objectives
    /\ objectivesLoading' = s.objectivesLoading
    /\ objectivesError' = s.objectivesError
    /\ dbObjectives' = s.dbObjectives
    /\ schedules' = s.schedules
    /\ schedulesLoading' = s.schedulesLoading
    /\ schedulesError' = s.schedulesError
    /\ dbSchedules' = s.dbSchedules
    /\ lastOp' = [op |-> op, id |-> id, args |-> args, calls |-> s.calls]
    /\ UNCHANGED <<pureCall, running>>

Ran(op, id, s) == RanWith(op, id, <<>>, s)

\* What a manually created mission is worth.
ManualRewards == {10, 102}

ManualInput(reward) ==
    [title |-> "Manual", description |-> "Manual mission", category |-> "sport",
     difficulty |-> "easy", xp_reward |-> reward, deadline |-> 1]

\* The ids a caller may pass: those given out so far, and one never given.
KnownIds == 1..nextId

\* The model follows MaxOps handler calls.
OpsLeft == opCount < MaxOps

FetchProfile ==
    /\ OpsLeft
    /\ \E s \in fetchProfile(Now) : Ran("fetchProfile", 0, s)

CreateMission ==
    /\ OpsLeft
    /\ nextId <= MaxManualMissions
    /\ \E reward \in ManualRewards :
          \E s \in createMission(Now, ManualInput(reward)) :
              Ran("createMission", nextId, s)

UpdateMission ==
    /\ OpsLeft
    /\ \E id \in KnownIds, status \in Statuses :
          \E s \in updateMission(Now, id, [status |-> status]) :
              Ran("updateMission", id, s)

MarkMissionComplete ==
    /\ OpsLeft
    /\ \E id \in KnownIds :
          \E s \in markMissionComplete(Now, id) : Ran("markMissionComplete", id, s)

\* The Complete button is rendered for the pending and in_progress missions
\* of the list, and only while the store is neither loading nor in error
\* (MissionsDisplay.tsx 82, 84, 100, 130).
CompleteButtonShown(id) ==
    /\ ~loading
    /\ error = Null
    /\ \E i \in 1..Len(missions) :
          missions[i].id = id /\ missions[i].status \in {"pending", "in_progress"}

HandleCompleteMission ==
    /\ OpsLeft
    /\ \E id \in KnownIds :
          /\ CompleteButtonShown(id)
          /\ \E s \in handleCompleteMission(Now, id) :
                Ran("handleCompleteMission", id, s)

Next ==
    \/ FetchProfile
    \/ CreateMission
    \/ UpdateMission
    \/ MarkMissionComplete
    \/ HandleCompleteMission

(***************************************************************************)
(* SpecProfile: the profile store alone, addXP called directly.            *)
(***************************************************************************)
\* The amounts addXP is called with, and the values updateStats and the
\* Settings form write.
XpAmounts == {0, 10, 102, 300}
StatValues == {5}

AddXP ==
    /\ OpsLeft
    /\ \E amount \in XpAmounts :
           \E s \in addXP(Now, amount) : RanWith("addXP", 0, <<amount>>, s)

UpdateStats ==
    /\ OpsLeft
    /\ \E stat \in StatKeySet, value \in StatValues :
           \E s \in updateStats(Now, stat, value) : Ran("updateStats", 0, s)

\* Settings.handleProfileUpdate: updateProfile({username, stats}) from the form
handleProfileUpdate(s, form) ==
    updateProfile(s, [username |-> form.username,
                      stats |-> [strength |-> form.strength,
                                 intelligence |-> form.intelligence,
                                 motivation |-> form.motivation]])

ProfileForms ==
    [username : {"hero"}, strength : StatValues, intelligence : {0},
     motivation : StatValues]

HandleProfileUpdate ==
    /\ OpsLeft
    /\ \E form \in ProfileForms :
           \E s \in handleProfileUpdate(Now, form) : Ran("handleProfileUpdate", 0, s)

ProfileNext ==
    \/ FetchProfile
    \/ AddXP
    \/ UpdateStats
    \/ HandleProfileUpdate

(***************************************************************************)
(* SpecGen: mission generation.  The remote profile row is any of          *)
(* GenProfiles; generateDailyMissions is called as MissionsDisplay calls   *)
(* it, with the profile of the profile store.                              *)
(***************************************************************************)
GenProfiles ==
    {InitialProfile,
     [level |-> 5, xp |-> 1600,
      stats |-> [strength |-> 5, intelligence |-> 5, motivation |-> 5]],
     [level |-> 8, xp |-> 4900,
      stats |-> [strength |-> 15, intelligence |-> 15, motivation |-> 15]]}

GenSchedules ==
    {<<>>,
     <<[is_active |-> TRUE, start_date |-> 0, end_date |-> None]>>,
     <<[is_active |-> FALSE, start_date |-> 0, end_date |-> None]>>,
     <<[is_active |-> TRUE, start_date |-> 1, end_date |-> None]>>,
     <<[is_active |-> TRUE, start_date |-> 0, end_date |-> Some(0)]>>,
     <<[is_active |-> FALSE, start_date |-> 0, end_date |-> None],
       [is_active |-> TRUE, start_date |-> 0, end_date |-> None]>>}

GenInstants == {DateOf(0) + 8, DateOf(0) + 21}

\* The remote missions table holds at most MaxMissionRows rows.
RoomToGenerate(given, now) ==
    checkScheduleAvailability(given, now)
        => Len(dbMissions) + Len(Categories) <= MaxMissionRows

\* SpecGen follows MaxGenOps calls of the missions store.
GenOpsLeft == opCount < MaxGenOps

GenerateDailyMissions ==
    /\ OpsLeft
    /\ GenOpsLeft
    /\ IsSome(profile)
    /\ \E given \in GenSchedules, now \in GenInstants :
          /\ RoomToGenerate(given, now)
          /\ \E s \in generateDailyMissions(Now, profile[1], given, now) :
                RanWith("generateDailyMissions", 0, <<given, now>>, s)

FetchMissions ==
    /\ OpsLeft
    /\ GenOpsLeft
    /\ \E s \in fetchMissions(Now) : Ran("fetchMissions", 0, s)

GenNext ==
    \/ FetchProfile
    \/ GenerateDailyMissions
    \/ FetchMissions

GenInit ==
    /\ StoreInit!1 /\ StoreInit!2 /\ StoreInit!3 /\ StoreInit!4 /\ StoreInit!5
    /\ StoreInit!6 /\ StoreInit!7 /\ StoreInit!8 /\ StoreInit!9
    /\ dbProfile \in GenProfiles
    /\ StoreInit!11 /\ StoreInit!12 /\ StoreInit!13 /\ StoreInit!14 /\ StoreInit!15
    /\ StoreInit!16 /\ StoreInit!17 /\ StoreInit!18 /\ StoreInit!19
    /\ StoreInit!20 /\ StoreInit!21 /\ StoreInit!22 /\ StoreInit!23
    /\ pureCall = NoPureCall
    /\ running = NoCalls

SpecGen == GenInit /\ [][GenNext]_vars

Init == StoreInit /\ pureCall = NoPureCall /\ running = NoCalls

Spec == Init /\ [][Next]_vars

\* The profile row at the start: a new user's, or one whose stats the
\* settings page has saved.
ProfileRows == {NewUserProfile, InitialProfile}

ProfileInit ==
    /\ StoreInit!1 /\ StoreInit!2 /\ StoreInit!3 /\ StoreInit!4 /\ StoreInit!5
    /\ StoreInit!6 /\ StoreInit!7 /\ StoreInit!8 /\ StoreInit!9
    /\ dbProfile \in ProfileRows
    /\ StoreInit!11 /\ StoreInit!12 /\ StoreInit!13 /\ StoreInit!14 /\ StoreInit!15
    /\ StoreInit!16 /\ StoreInit!17 /\ StoreInit!18 /\ StoreInit!19
    /\ StoreInit!20 /\ StoreInit!21 /\ StoreInit!22 /\ StoreInit!23
    /\ pureCall = NoPureCall
    /\ running = NoCalls

SpecProfile == ProfileInit /\ [][ProfileNext]_vars

(***************************************************************************)
(* SpecObjectives: the objectives store, its operations called with the    *)
(* arguments their signatures admit.                                       *)
(***************************************************************************)
ObjectiveTargets == {1, 2}

ObjectiveInput(target) == [title |-> "Objective", target_value |-> target]

ObjectiveUpdates ==
    {[status |-> "completed"], [current_value |-> 3], [target_value |-> 1]}

ProgressAmounts == {-1, 1, 2}

\* The ids of the rows of a list.
IdsOf(list) == {list[i].id : i \in 1..Len(list)}

CreateObjective ==
    /\ OpsLeft
    /\ Len(dbObjectives) < MaxEntityRows
    /\ \E target \in ObjectiveTargets :
          \E s \in createObjective(Now, ObjectiveInput(target)) :
              Ran("createObjective", nextId, s)

UpdateObjective ==
    /\ OpsLeft
    /\ \E id \in IdsOf(objectives), updates \in ObjectiveUpdates :
          \E s \in updateObjective(Now, id, updates) :
              RanWith("updateObjective", id, <<updates>>, s)

IncrementProgress ==
    /\ OpsLeft
    /\ \E id \in IdsOf(objectives), amount \in ProgressAmounts :
          \E s \in incrementProgress(Now, id, amount) :
              RanWith("incrementProgress", id, <<amount>>, s)

ObjectivesNext ==
    \/ CreateObjective
    \/ UpdateObjective
    \/ IncrementProgress

SpecObjectives == Init /\ [][ObjectivesNext]_vars

(***************************************************************************)
(* SpecLinks: missions that reference an objective and a schedule, and the *)
(* deletion of each of the three.                                          *)
(***************************************************************************)
ScheduleInput ==
    [title |-> "Schedule", frequency |-> "daily", start_date |-> 0,
     end_date |-> None]

\* A reference the caller can give: none, or a row of the store's list.
RefsTo(list) == {None} \cup {Some(id) : id \in IdsOf(list)}

CreateSchedule ==
    /\ OpsLeft
    /\ Len(dbSchedules) < MaxEntityRows
    /\ \E s \in createSchedule(Now, ScheduleInput) :
          Ran("createSchedule", nextId, s)

CreateLinkedMission ==
    /\ OpsLeft
    /\ Len(dbMissions) < MaxManualMissions
    /\ \E objectiveId \in RefsTo(objectives), scheduleId \in RefsTo(schedules) :
          LET input == Merge(ManualInput(10), [objective_id |-> objectiveId,
                                               schedule_id |-> scheduleId])
          IN \E s \in createMission(Now, input) : Ran("createMission", nextId, s)

DeleteObjective ==
    /\ OpsLeft
    /\ \E id \in IdsOf(objectives) :
          \E s \in deleteObjective(Now, id) : Ran("deleteObjective", id, s)

DeleteSchedule ==
    /\ OpsLeft
    /\ \E id \in IdsOf(schedules) :
          \E s \in deleteSchedule(Now, id) : Ran("deleteSchedule", id, s)

DeleteMission ==
    /\ OpsLeft
    /\ \E id \in IdsOf(missions) :
          \E s \in deleteMission(Now, id) : Ran("deleteMission", id, s)

LinksNext ==
    \/ CreateObjective
    \/ CreateSchedule
    \/ CreateLinkedMission
    \/ DeleteObjective
    \/ DeleteSchedule
    \/ DeleteMission

SpecLinks == Init /\ [][LinksNext]_vars

(***************************************************************************)
(* SpecForms: the forms that create objectives and schedules:              *)
(* ObjectivesManager and SchedulesManager (the components) and the         *)
(* objectives and schedules tabs of the settings page.  A form is the      *)
(* component's state when Submit is pressed.                               *)
(***************************************************************************)
\* The clock of the forms: day 1, 08:00.
FormNow == DateOf(1) + 8

\* parseInt(e.target.value) || 1: what typing -1, 0, 1, 2 leaves in the form
FormTargets == {-1, 1, 2}

ObjectiveForms ==
    [title : {"", "Objective"}, target_value : FormTargets,
     deadline : {None, Some(0), Some(2)}]

ScheduleForms ==
    [title : {"", "Schedule"}, frequency : {"daily"},
     start_date : {None, Some(0), Some(1)}, end_date : {None, Some(0), Some(1)}]

\* What a form sends to the store: '' for a date left empty is no date.
ScheduleInputOf(formData) ==
    [title |-> formData.title, frequency |-> formData.frequency,
     start_date |-> formData.start_date[1], end_date |-> formData.end_date]

\* ObjectivesManager.validateForm
ObjectivesManager_validateForm(formData, now) ==
    /\ formData.title # ""
    /\ ~(formData.target_value < 1)
    /\ ~(IsSome(formData.deadline) /\ DateOf(formData.deadline[1]) < now)

\* ObjectivesManager.handleSubmit
ObjectivesManager_handleSubmit(s, formData, now) ==
    IF ~ObjectivesManager_validateForm(formData, now) THEN {s}
    ELSE createObjective(s, formData)

\* SchedulesManager.validateForm
SchedulesManager_validateForm(formData) ==
    /\ formData.title # ""
    /\ IsSome(formData.start_date)
    /\ ~(/\ IsSome(formData.end_date)
         /\ DateOf(formData.end_date[1]) < DateOf(formData.start_date[1]))

\* SchedulesManager.handleSubmit
SchedulesManager_handleSubmit(s, formData) ==
    IF ~SchedulesManager_validateForm(formData) THEN {s}
    ELSE createSchedule(s, ScheduleInputOf(formData))

\* Settings.handleObjectiveSubmit
handleObjectiveSubmit(s, objectiveForm) == createObjective(s, objectiveForm)

\* Settings.handleScheduleSubmit
handleScheduleSubmit(s, scheduleForm) ==
    createSchedule(s, ScheduleInputOf(scheduleForm))

\* The browser submits the objectives tab's form only when its inputs are
\* valid: title required, target value required with min="1".
ObjectiveTabSubmits(objectiveForm) ==
    objectiveForm.title # "" /\ objectiveForm.target_value >= 1

\* The same for the schedules tab: title required, start date required.
ScheduleTabSubmits(scheduleForm) ==
    scheduleForm.title # "" /\ IsSome(scheduleForm.start_date)

SubmitObjectiveForm ==
    /\ OpsLeft
    /\ Len(dbObjectives) < MaxEntityRows
    /\ \E formData \in ObjectiveForms :
          \E s \in ObjectivesManager_handleSubmit(Now, formData, FormNow) :
              RanWith("ObjectivesManager.handleSubmit", nextId, <<formData>>, s)

SubmitScheduleForm ==
    /\ OpsLeft
    /\ Len(dbSchedules) < MaxEntityRows
    /\ \E formData \in ScheduleForms :
          \E s \in SchedulesManager_handleSubmit(Now, formData) :
              RanWith("SchedulesManager.handleSubmit", nextId, <<formData>>, s)

HandleObjectiveSubmit ==
    /\ OpsLeft
    /\ Len(dbObjectives) < MaxEntityRows
    /\ \E objectiveForm \in ObjectiveForms :
          /\ ObjectiveTabSubmits(objectiveForm)
          /\ \E s \in handleObjectiveSubmit(Now, objectiveForm) :
                RanWith("handleObjectiveSubmit", nextId, <<objectiveForm>>, s)

HandleScheduleSubmit ==
    /\ OpsLeft
    /\ Len(dbSchedules) < MaxEntityRows
    /\ \E scheduleForm \in ScheduleForms :
          /\ ScheduleTabSubmits(scheduleForm)
          /\ \E s \in handleScheduleSubmit(Now, scheduleForm) :
                RanWith("handleScheduleSubmit", nextId, <<scheduleForm>>, s)

FormsNext ==
    \/ SubmitObjectiveForm
    \/ SubmitScheduleForm
    \/ HandleObjectiveSubmit
    \/ HandleScheduleSubmit

SpecForms == Init /\ [][FormsNext]_vars

(***************************************************************************)
(* SpecOverlap: calls of markMissionComplete and addXP that overlap.  A    *)
(* call runs from one await to the next; at an await it has a request in   *)
(* flight, which the remote store serves (Serve) and whose response the    *)
(* client then receives (Receive), and the steps of the calls interleave.  *)
(* running[p] is call p: its operation, the await it is at (pc), the body  *)
(* of the request in flight, the response (none yet, ok or error) with its *)
(* data, and the values the call holds in its local constants: the mission *)
(* markMissionComplete found and the profile updateProfile read.           *)
(***************************************************************************)
\* The amounts addXP is called with directly.
OverlapAmounts == {10, 102}

\* The call goes on to the await pc with the request body in flight.
Await(call, pc, body) ==
    [call EXCEPT !.pc = pc, !.body = body, !.resp = "none", !.data = <<>>]

\* The call has returned.
Return(call) ==
    [call EXCEPT !.pc = "done", !.body = <<>>, !.resp = "none", !.data = <<>>]

\* A step's outcome: the stores and tables, and the call.
Outcome(s, call) == [s |-> s, call |-> call]

\* trackMissionHistory up to its insert
beginTrack(s, call, pc, action, oldStatus, newStatus, xpGained) ==
    Outcome(s, Await(call, pc,
                     [mission_id |-> call.id, action |-> action,
                      old_status |-> oldStatus, new_status |-> newStatus,
                      xp_gained |-> xpGained]))

\* fetchMissionHistory up to its select
beginFetchHistory(s, call, pc) ==
    Outcome([s EXCEPT !.loading = TRUE, !.error = Null], Await(call, pc, <<>>))

\* markMissionComplete after addXP has returned: trackMissionHistory
\* ('completed').  A direct call of addXP returns.
afterAddXP(s, call) ==
    IF call.op = "addXP" THEN Outcome(s, Return(call))
    ELSE beginTrack(s, call, "trackCompleted", "completed",
                    call.mission.status, "completed", call.mission.xp_reward)

\* addXP, and the updateProfile it calls, up to the update request.
beginAddXP(s, call, randomStat) ==
    IF ~IsSome(s.profile) THEN afterAddXP(s, call)
    ELSE LET read == s.profile[1]
             newXP == read.xp + call.amount
             newLevel == calculateLevel(newXP)
             newStats ==
                 Merge(read.stats,
                       randomStat :> plus(toNumber(read.stats, randomStat), 1))
             updates == IF newLevel > read.level
                        THEN [level |-> newLevel, xp |-> newXP, stats |-> newStats]
                        ELSE [xp |-> newXP]
         IN Outcome([s EXCEPT !.profileLoading = TRUE, !.profileError = Null],
                    [Await(call, "updateProfile", updates)
                        EXCEPT !.captured = read])

\* markMissionComplete after updateMission has returned: the import of the
\* profile store, awaited before addXP is called.
afterUpdateMission(s, call) == Outcome(s, Await(call, "import", <<>>))

\* The client's code from the response of call's request to the call's next
\* await or its return.
receive(s, call, randomStat) ==
    LET ok == call.resp = "ok"
    IN CASE call.pc = "updateMission" ->
              IF ok
              THEN LET s1 == [s EXCEPT
                                !.missions = [j \in 1..Len(@) |->
                                                IF @[j].id = call.id THEN call.data
                                                ELSE @[j]],
                                !.loading = FALSE]
                   IN IF call.body.status # call.mission.status
                      THEN beginTrack(s1, call, "trackUpdated", "updated",
                                      call.mission.status, call.body.status, 0)
                      ELSE afterUpdateMission(s1, call)
              ELSE afterUpdateMission(
                       [s EXCEPT !.error = RemoteError, !.loading = FALSE], call)
         [] call.pc = "trackUpdated" ->
              IF ok THEN beginFetchHistory(s, call, "fetchHistoryUpdated")
              ELSE afterUpdateMission(s, call)
         [] call.pc = "fetchHistoryUpdated" ->
              afterUpdateMission(
                  IF ok THEN [s EXCEPT !.missionHistory = call.data, !.loading = FALSE]
                  ELSE [s EXCEPT !.error = RemoteError, !.loading = FALSE],
                  call)
         [] call.pc = "import" -> beginAddXP(s, call, randomStat)
         [] call.pc = "updateProfile" ->
              afterAddXP(
                  IF ok
                  THEN [s EXCEPT !.profile = Some(Merge(call.captured, call.body)),
                                 !.profileLoading = FALSE]
                  ELSE [s EXCEPT !.profileError = RemoteError,
                                 !.profileLoading = FALSE],
                  call)
         [] call.pc = "trackCompleted" ->
              IF ok THEN beginFetchHistory(s, call, "fetchHistoryCompleted")
              ELSE Outcome(s, Return(call))
         [] call.pc = "fetchHistoryCompleted" ->
              Outcome(IF ok
                      THEN [s EXCEPT !.missionHistory = call.data, !.loading = FALSE]
                      ELSE [s EXCEPT !.error = RemoteError, !.loading = FALSE],
                      Return(call))
         [] call.pc = "updateSchedule" ->
              Outcome(IF ok
                      THEN [s EXCEPT
                              !.schedules = [j \in 1..Len(@) |->
                                                IF @[j].id = call.id THEN call.data
                                                ELSE @[j]],
                              !.schedulesLoading = FALSE]
                      ELSE [s EXCEPT !.schedulesError = RemoteError,
                                     !.schedulesLoading = FALSE],
                      Return(call))

\* The remote store can carry out the request of the call.
CanServe(s, call) ==
    CASE call.pc = "updateMission" -> find(s.dbMissions, call.id) # 0
      [] call.pc \in {"trackUpdated", "trackCompleted"} ->
            find(s.dbMissions, call.body.mission_id) # 0
      [] call.pc = "updateSchedule" -> find(s.dbSchedules, call.id) # 0
      [] OTHER -> TRUE

\* The remote store carries out the request of the call.
serve(s, call) ==
    LET answer(data) == [call EXCEPT !.resp = "ok", !.data = data]
    IN CASE call.pc = "updateMission" ->
              LET row == find(s.dbMissions, call.id)
                  data == Merge(s.dbMissions[row], call.body)
              IN Outcome([s EXCEPT !.dbMissions[row] = data], answer(data))
         [] call.pc \in {"trackUpdated", "trackCompleted"} ->
              Outcome([s EXCEPT !.dbHistory = Append(@, call.body)], answer(<<>>))
         [] call.pc \in {"fetchHistoryUpdated", "fetchHistoryCompleted"} ->
              Outcome(s, answer(Reverse(s.dbHistory)))
         [] call.pc = "updateProfile" ->
              Outcome([s EXCEPT !.dbProfile = Merge(@, toJSON(call.body))],
                      answer(<<>>))
         [] call.pc = "updateSchedule" ->
              LET row == find(s.dbSchedules, call.id)
                  data == Merge(s.dbSchedules[row], call.body)
              IN Outcome([s EXCEPT !.dbSchedules[row] = data], answer(data))

\* The stores and the tables become those of s.
StoreBecomes(s) ==
    /\ missions' = s.missions
    /\ missionHistory' = s.missionHistory
    /\ loading' = s.loading
    /\ error' = s.error
    /\ profile' = s.profile
    /\ profileLoading' = s.profileLoading
    /\ profileError' = s.profileError
    /\ dbMissions' = s.dbMissions
    /\ dbHistory' = s.dbHistory
    /\ dbProfile' = s.dbProfile
    /\ nextId' = s.nextId
    /\ objectives' = s.objectives
    /\ objectivesLoading' = s.objectivesLoading
    /\ objectivesError' = s.objectivesError
    /\ dbObjectives' = s.dbObjectives
    /\ schedules' = s.schedules
    /\ schedulesLoading' = s.schedulesLoading
    /\ schedulesError' = s.schedulesError
    /\ dbSchedules' = s.dbSchedules

\* Call p takes a step that ends in outcome o.
Stepped(p, o) ==
    /\ StoreBecomes(o.s)
    /\ running' = [running EXCEPT ![p] = o.call]
    /\ UNCHANGED <<lastOp, xpGrantLog, opCount, pureCall>>

\* markMissionComplete(id) is called: it runs up to the update request of
\* updateMission.
StartMarkMissionComplete ==
    \E p \in Calls, id \in IdsOf(missions) :
        LET mission == missions[find(missions, id)]
            s1 == [Now EXCEPT !.loading = TRUE, !.error = Null]
            call == [Idle EXCEPT !.op = "markMissionComplete", !.id = id,
                                 !.mission = mission,
                                 !.amount = mission.xp_reward]
        IN /\ running[p].op = "idle"
           /\ Stepped(p, Outcome(s1, Await(call, "updateMission",
                                           [status |-> "completed"])))
           /\ UNCHANGED failureCount

\* addXP(amount) is called: it runs up to the update request of updateProfile.
StartAddXP ==
    \E p \in Calls, amount \in OverlapAmounts, randomStat \in StatKeySet :
        /\ running[p].op = "idle"
        /\ Stepped(p, beginAddXP(Now, [Idle EXCEPT !.op = "addXP",
                                                   !.amount = amount],
                                 randomStat))
        /\ UNCHANGED failureCount

\* A request is in flight: the call waits for the remote store.
InFlight(call) ==
    call.pc \notin {"idle", "done", "import"} /\ call.resp = "none"

\* The remote store carries out the request of a call.
Serve ==
    \E p \in Calls :
        /\ InFlight(running[p])
        /\ CanServe(Now, running[p])
        /\ Stepped(p, serve(Now, running[p]))
        /\ UNCHANGED failureCount

\* The request of a call fails.
Fail ==
    \E p \in Calls :
        /\ InFlight(running[p])
        /\ failureCount < MaxFailures
        /\ failureCount' = failureCount + 1
        /\ Stepped(p, Outcome(Now, [running[p] EXCEPT !.resp = "error",
                                                      !.failed = TRUE]))

\* The client receives the response of a call (or the import it awaits is
\* done) and runs the call to its next await.
Receive ==
    \E p \in Calls, randomStat \in StatKeySet :
        /\ running[p].resp # "none" \/ running[p].pc = "import"
        /\ Stepped(p, receive(Now, running[p], randomStat))
        /\ UNCHANGED failureCount

OverlapNext ==
    \/ StartMarkMissionComplete
    \/ StartAddXP
    \/ Serve
    \/ Fail
    \/ Receive

\* The missions and the history the two created missions leave, and the
\* profile as fetched.
OverlapMission(id, reward) ==
    Merge([id |-> id, status |-> "pending", objective_id |-> None,
           schedule_id |-> None], ManualInput(reward))

CreatedEntry(id) ==
    [mission_id |-> id, action |-> "created", old_status |-> Null,
     new_status |-> "pending", xp_gained |-> 0]

OverlapInit ==
    /\ dbMissions = <<OverlapMission(1, 102), OverlapMission(2, 10)>>
    /\ missions = Reverse(dbMissions)
    /\ dbHistory = <<CreatedEntry(1), CreatedEntry(2)>>
    /\ missionHistory = Reverse(dbHistory)
    /\ nextId = 3
    /\ dbProfile = InitialProfile
    /\ profile = Some(dbProfile)
    /\ StoreInit!3 /\ StoreInit!4 /\ StoreInit!6 /\ StoreInit!7
    /\ StoreInit!12 /\ StoreInit!13 /\ StoreInit!14 /\ StoreInit!15
    /\ StoreInit!16 /\ StoreInit!17 /\ StoreInit!18 /\ StoreInit!19
    /\ StoreInit!20 /\ StoreInit!21 /\ StoreInit!22 /\ StoreInit!23
    /\ pureCall = NoPureCall
    /\ running = NoCalls

SpecOverlap == OverlapInit /\ [][OverlapNext]_vars

(***************************************************************************)
(* SpecToggle: calls of toggleSchedule that overlap, on the schedule that  *)
(* the form of SchedulesManager has created.                               *)
(***************************************************************************)
\* toggleSchedule(id) is called: it runs up to the update request of
\* updateSchedule.
StartToggleSchedule ==
    \E p \in Calls, id \in IdsOf(schedules) :
        LET schedule == schedules[find(schedules, id)]
            s1 == [Now EXCEPT !.schedulesLoading = TRUE, !.schedulesError = Null]
            call == [Idle EXCEPT !.op = "toggleSchedule", !.id = id]
        IN /\ running[p].op = "idle"
           /\ Stepped(p, Outcome(s1, Await(call, "updateSchedule",
                                           [is_active |-> ~schedule.is_active])))
           /\ UNCHANGED failureCount

ToggleNext ==
    \/ SubmitScheduleForm
    \/ StartToggleSchedule
    \/ Serve
    \/ Fail
    \/ Receive

SpecToggle == Init /\ [][ToggleNext]_vars

StatsInputs ==
    [strength : 0..MaxStat, intelligence : 0..MaxStat, motivation : 0..MaxStat]

ScheduleInputs ==
    [is_active : BOOLEAN,
     start_date : 0..MaxDay, end_date : {None} \cup {Some(d) : d \in 0..MaxDay}]

\* The hours around the two edges of the 8-20 window, and the ends of the day.
HoursOfDay == {0, 7, 8, 20, 21}

Instants == {DateOf(d) + h : d \in 0..MaxDay, h \in HoursOfDay}

\* The entries of a mission history as fetchStats reads them: the xp gained
\* (0 for created and updated entries) and the day of created_at.
HistoryGains == {0, 10, 102}

HistoryInputs == [xp_gained : HistoryGains, created_at : 0..MaxDay]

\* A call that has not been applied yet.
Pending(c) == [call |-> c, done |-> FALSE, result |-> Null]

PureInit ==
    /\ StoreInit
    /\ running = NoCalls
    /\ \/ \E x \in 0..MaxPureXP :
            pureCall = Pending([fn |-> "calculateLevel", xp |-> x])
       \/ \E d \in Difficulties, l \in 1..MaxLevel :
            pureCall = Pending([fn |-> "getXPReward", difficulty |-> d,
                                userLevel |-> l])
       \/ \E l \in 1..MaxLevel, st \in StatsInputs :
            pureCall = Pending([fn |-> "selectDifficulty", userLevel |-> l,
                                stats |-> st])
       \/ \E n \in 0..MaxSchedules :
            \E ss \in [1..n -> ScheduleInputs], t \in Instants :
                pureCall = Pending([fn |-> "checkScheduleAvailability",
                                    schedules |-> ss, now |-> t])
       \/ \E n \in 0..MaxHistory :
            \E h \in [1..n -> HistoryInputs] :
                pureCall = Pending([fn |-> "levelProgression", history |-> h])

Returns(fn, value) ==
    /\ pureCall.call.fn = fn
    /\ ~pureCall.done
    /\ pureCall' = [pureCall EXCEPT !.done = TRUE, !.result = value]
    /\ UNCHANGED <<storeVars, running>>

ApplyCalculateLevel ==
    /\ pureCall.call.fn = "calculateLevel"
    /\ Returns("calculateLevel", calculateLevel(pureCall.call.xp))

ApplyGetXPReward ==
    /\ pureCall.call.fn = "getXPReward"
    /\ Returns("getXPReward",
               getXPReward(pureCall.call.difficulty, pureCall.call.userLevel))

ApplySelectDifficulty ==
    /\ pureCall.call.fn = "selectDifficulty"
    /\ Returns("selectDifficulty",
               selectDifficulty(pureCall.call.userLevel, pureCall.call.stats))

ApplyCheckScheduleAvailability ==
    /\ pureCall.call.fn = "checkScheduleAvailability"
    /\ Returns("checkScheduleAvailability",
               checkScheduleAvailability(pureCall.call.schedules, pureCall.call.now))

ApplyLevelProgression ==
    /\ pureCall.call.fn = "levelProgression"
    /\ Returns("levelProgression",
               uniqueProgression(levelProgression(pureCall.call.history)))

PureNext ==
    \/ ApplyCalculateLevel
    \/ ApplyGetXPReward
    \/ ApplySelectDifficulty
    \/ ApplyCheckScheduleAvailability
    \/ ApplyLevelProgression

SpecPure == PureInit /\ [][PureNext]_vars

Returned(fn) == pureCall.call.fn = fn /\ pureCall.done

(***************************************************************************)
(* Claims about mission completion (Spec), the profile store (SpecProfile) *)
(* and mission generation (SpecGen).                                       *)
(***************************************************************************)
AllOk(calls) == \A k \in 1..Len(calls) : calls[k].ok

\* level = floor(sqrt(xp / 100)) + 1, stated without the square root
LevelMatchesXp(p) ==
    /\ p.level >= 1
    /\ 100 * (p.level - 1) * (p.level - 1) <= p.xp
    /\ p.xp < 100 * p.level * p.level

XpGrantCount(id) == Cardinality({k \in 1..Len(xpGrantLog) : xpGrantLog[k] = id})

\* C1: for every mission and every sequence of markMissionComplete calls on
\* it, the profile's xp is increased by the mission's xp_reward at most once.
\* (The claim as stated.)
C1_XpGrantedAtMostOnce ==
    \A id \in 1..(nextId - 1) : XpGrantCount(id) <= 1

\* C2: one completion action on a pending mission (handleCompleteMission)
\* increases profile.xp by exactly the mission's xp_reward when all remote
\* calls succeed.  (The claim as stated.)
C2_CompletionGrantsRewardOnce ==
    [][LET i == find(missions, lastOp'.id)
       IN (/\ lastOp'.op = "handleCompleteMission"
           /\ AllOk(lastOp'.calls)
           /\ i # 0
           /\ missions[i].status = "pending"
           /\ IsSome(profile))
          => profile'[1].xp = profile[1].xp + missions[i].xp_reward]_vars

\* C3: starting from a profile with level = levelFromXP(xp), after every
\* addXP call that finishes (its remote write succeeded or failed) the local
\* profile has level = floor(sqrt(xp/100)) + 1, and no operation of the
\* profile store changes level without changing xp.
C3_LevelFollowsXp ==
    [][/\ IsSome(profile') => LevelMatchesXp(profile'[1])
       /\ (/\ IsSome(profile)
           /\ IsSome(profile')
           /\ profile'[1].level # profile[1].level)
          => profile'[1].xp # profile[1].xp]_vars

C3_Witness ==
    /\ lastOp.op = "addXP"
    /\ lastOp.args = <<300>>
    /\ AllOk(lastOp.calls)
    /\ IsSome(profile)
    /\ profile[1].xp = 402
    /\ profile[1].level = 3

CompletedEntries(history, id, reward) ==
    {k \in 1..Len(history) :
        /\ history[k].mission_id = id
        /\ history[k].action = "completed"
        /\ history[k].xp_gained = reward}

\* C4: when markMissionComplete is called on a pending or in_progress mission
\* with xp_reward r, the profile is loaded and every remote call succeeds,
\* then afterwards the mission's status is completed, profile.xp is the old
\* xp plus r, profile.level is levelFromXP of the new xp, and exactly one
\* history entry with action completed and xp_gained = r has been appended
\* for that mission (level 1, xp 0, r = 102 gives xp 102 and level 2).
C4_MarkMissionComplete ==
    [][LET id == lastOp'.id
           i == find(missions, id)
           r == missions[i].xp_reward
       IN (/\ lastOp'.op = "markMissionComplete"
           /\ AllOk(lastOp'.calls)
           /\ i # 0
           /\ missions[i].status \in {"pending", "in_progress"}
           /\ IsSome(profile))
          => /\ missions'[find(missions', id)].status = "completed"
             /\ dbMissions'[find(dbMissions', id)].status = "completed"
             /\ profile'[1].xp = profile[1].xp + r
             /\ LevelMatchesXp(profile'[1])
             /\ Len(dbHistory') > Len(dbHistory)
             /\ SubSeq(dbHistory', 1, Len(dbHistory)) = dbHistory
             /\ Cardinality(CompletedEntries(dbHistory', id, r))
                  = Cardinality(CompletedEntries(dbHistory, id, r)) + 1
             /\ (profile[1].level = 1 /\ profile[1].xp = 0 /\ r = 102)
                => (profile'[1].xp = 102 /\ profile'[1].level = 2)]_vars

C4_Witness ==
    /\ lastOp.op = "markMissionComplete"
    /\ AllOk(lastOp.calls)
    /\ \E k \in 1..Len(lastOp.calls) :
          /\ lastOp.calls[k].table = "mission_history"
          /\ lastOp.calls[k].verb = "insert"
          /\ lastOp.calls[k].data.action = "completed"
          /\ lastOp.calls[k].data.old_status = "in_progress"
          /\ lastOp.calls[k].data.xp_gained = 102
    /\ IsSome(profile)
    /\ profile[1].xp = 102
    /\ profile[1].level = 2

\* The availability gate, as the claim words it, for the arguments of the
\* generateDailyMissions call that ran last.
NoSchedulePasses(args) ==
    LET list == args[1]
        now == args[2]
    IN ~\E i \in 1..Len(list) :
          /\ list[i].is_active
          /\ now >= 24 * list[i].start_date
          /\ (list[i].end_date = None \/ now <= 24 * list[i].end_date[1])
          /\ (now % 24) \in 8..20

\* C10: when no schedule passes the availability gate, generateDailyMissions
\* is a silent no-op: it issues no creation request, adds no mission and no
\* history entry, leaves error null and finishes with loading false.
C10_GenerateGatedIsNoOp ==
    [][(lastOp'.op = "generateDailyMissions" /\ NoSchedulePasses(lastOp'.args))
       => /\ \A k \in 1..Len(lastOp'.calls) :
                ~(lastOp'.calls[k].table = "missions"
                  /\ lastOp'.calls[k].verb = "insert")
          /\ missions' = missions
          /\ dbMissions' = dbMissions
          /\ missionHistory' = missionHistory
          /\ dbHistory' = dbHistory
          /\ error' = Null
          /\ loading' = FALSE]_vars

C10_Witness ==
    /\ lastOp.op = "generateDailyMissions"
    /\ NoSchedulePasses(lastOp.args)
    /\ Len(lastOp.args[1]) = 1
    /\ lastOp.args[1][1].is_active
    /\ Len(missions) = 3
    /\ error = Null
    /\ ~loading

\* The creation requests among calls, in the order they were submitted.
IsCreationRequest(c) == c.table = "missions" /\ c.verb = "insert"

CreationRequests(calls) == SelectSeq(calls, IsCreationRequest)

IsOk(c) == c.ok

FromCatalog(d) ==
    \E t \in 1..Len(getMissionTemplates(d.category)) :
        /\ d.title = getMissionTemplates(d.category)[t].title
        /\ d.description = getMissionTemplates(d.category)[t].description

\* C11: when the availability gate is true, generateDailyMissions submits
\* exactly three creation requests, one for each of sport, studies and
\* routine, each with title and description from one template of that
\* category's catalog, difficulty = selectDifficulty(profile.level,
\* profile.stats) and xp_reward = getXPReward(that difficulty, profile.level).
C11_GenerateSubmitsThree ==
    [][(lastOp'.op = "generateDailyMissions" /\ ~NoSchedulePasses(lastOp'.args))
       => LET reqs == CreationRequests(lastOp'.calls)
          IN /\ Len(reqs) = 3
             /\ \A cat \in {"sport", "studies", "routine"} :
                   Cardinality({k \in 1..Len(reqs) : reqs[k].data.category = cat}) = 1
             /\ \A k \in 1..Len(reqs) :
                   /\ FromCatalog(reqs[k].data)
                   /\ reqs[k].data.difficulty =
                        selectDifficulty(profile[1].level, profile[1].stats)
                   /\ reqs[k].data.xp_reward =
                        getXPReward(reqs[k].data.difficulty, profile[1].level)]_vars

C11_Witness ==
    /\ lastOp.op = "generateDailyMissions"
    /\ ~NoSchedulePasses(lastOp.args)
    /\ AllOk(lastOp.calls)
    /\ Len(CreationRequests(lastOp.calls)) = 3
    /\ \A k \in 1..3 :
          /\ CreationRequests(lastOp.calls)[k].data.difficulty = "hard"
          /\ CreationRequests(lastOp.calls)[k].data.xp_reward = 173
    /\ CreationRequests(lastOp.calls)[2].data.title = "Practice Problems"
    /\ Len(missions) = 3

\* C12: if the remote creation request for one category fails during
\* generateDailyMissions, the creation requests for the remaining categories
\* are still submitted, and every mission whose creation succeeded is added
\* to the local missions list.
C12_PartialFailureDoesNotBlock ==
    [][(lastOp'.op = "generateDailyMissions" /\ ~NoSchedulePasses(lastOp'.args))
       => LET reqs == CreationRequests(lastOp'.calls)
              created == SelectSeq(reqs, IsOk)
              n == Len(created)
          IN /\ \A c \in 1..Len(Categories) :
                   \E k \in 1..Len(reqs) : reqs[k].data.category = Categories[c]
             /\ Len(missions') = Len(missions) + n
             /\ SubSeq(missions', n + 1, Len(missions')) = missions
             /\ \A k \in 1..n :
                   /\ missions'[n + 1 - k].category = created[k].data.category
                   /\ missions'[n + 1 - k].title = created[k].data.title
                   /\ missions'[n + 1 - k].xp_reward = created[k].data.xp_reward
                   /\ missions'[n + 1 - k].status = "pending"]_vars

C12_Witness ==
    /\ lastOp.op = "generateDailyMissions"
    /\ Len(CreationRequests(lastOp.calls)) = 3
    /\ ~CreationRequests(lastOp.calls)[1].ok
    /\ CreationRequests(lastOp.calls)[2].ok
    /\ CreationRequests(lastOp.calls)[3].ok
    /\ Len(missions) = 2
    /\ missions[1].category = "routine"
    /\ missions[2].category = "studies"

\* C14: for any sequence of updateMission and markMissionComplete calls, once
\* a mission's status is no longer pending it never becomes pending again.
\* (The claim as stated.)
C14_NeverPendingAgain ==
    [][\A i \in 1..Len(missions), j \in 1..Len(missions') :
          (/\ missions'[j].id = missions[i].id
           /\ missions[i].status # "pending")
          => missions'[j].status # "pending"]_vars

IsStatusUpdate(c) == c.table = "missions" /\ c.verb = "update"

IsProfileWrite(c) == c.table = "profiles" /\ c.verb = "update"

IsHistoryAppend(c) == c.table = "mission_history" /\ c.verb = "insert"

\* C17: within markMissionComplete the sub-steps run strictly in the order
\* status update, XP grant, history append, and the XP grant is performed
\* only if the status update to completed was committed by the remote store.
\* (The claim as stated.)
C17_GrantOnlyAfterCommittedUpdate ==
    [][lastOp'.op = "markMissionComplete"
       => LET calls == lastOp'.calls
          IN \A k \in 1..Len(calls) :
                /\ IsProfileWrite(calls[k])
                   => /\ \E j \in 1..(k - 1) :
                            IsStatusUpdate(calls[j]) /\ calls[j].ok
                      /\ \A j \in (k + 1)..Len(calls) : ~IsStatusUpdate(calls[j])
                /\ (IsHistoryAppend(calls[k]) /\ calls[k].data.action = "completed")
                   => \A j \in (k + 1)..Len(calls) :
                         ~IsStatusUpdate(calls[j]) /\ ~IsProfileWrite(calls[j])]_vars

\* C18: a mission_history entry with action completed and xp_gained = r is
\* appended only if the profile's xp was actually increased by r: if the
\* profile is not loaded or the profile update fails, no completed entry
\* carrying that XP is recorded.  (The claim as stated.)
C18_CompletedEntryOnlyIfXpGranted ==
    [][lastOp'.op = "markMissionComplete"
       => \A k \in (Len(dbHistory) + 1)..Len(dbHistory') :
             (dbHistory'[k].action = "completed" /\ dbHistory'[k].xp_gained > 0)
             => /\ IsSome(profile)
                /\ IsSome(profile')
                /\ profile'[1].xp = profile[1].xp + dbHistory'[k].xp_gained]_vars

\* The store operations that issue the create, update and delete requests.
MutatingOperations ==
    {"createMission", "updateMission", "deleteMission", "updateStats",
     "handleProfileUpdate", "addXP", "createObjective", "updateObjective",
     "deleteObjective", "incrementProgress", "createSchedule", "deleteSchedule"}

IsMutation(c) == c.verb \in {"insert", "update", "delete"}

\* C15: if the remote store returns an error for a create, update or delete
\* request issued by the missions, objectives, schedules or profile store,
\* the store's local record list (or local profile) is identical to what it
\* was before the call, and the store's error field holds the failure
\* message.  (The claim as stated.)
C15_RemoteFailureLeavesStateUnchanged ==
    [][lastOp'.op \in MutatingOperations
       => \A k \in 1..Len(lastOp'.calls) :
             LET c == lastOp'.calls[k]
             IN (IsMutation(c) /\ ~c.ok)
                => /\ c.table = "missions"
                      => (missions' = missions /\ error' = RemoteError)
                   /\ c.table = "mission_history"
                      => (missionHistory' = missionHistory /\ error' = RemoteError)
                   /\ c.table = "profiles"
                      => (profile' = profile /\ profileError' = RemoteError)
                   /\ c.table = "objectives"
                      => (objectives' = objectives /\ objectivesError' = RemoteError)
                   /\ c.table = "schedules"
                      => (schedules' = schedules /\ schedulesError' = RemoteError)]_vars

\* C16: every profile write issued by the client commits level, xp and stats
\* together: no operation writes level alone or stats alone, and a failure
\* during a level-up never leaves the profile with the new level but the old
\* xp or old stats.  (The claim as stated.)
C16_ProfileWritesTogether ==
    [][/\ \A k \in 1..Len(lastOp'.calls) :
             IsProfileWrite(lastOp'.calls[k])
             => LET written == DOMAIN lastOp'.calls[k].data
                IN ("level" \in written \/ "stats" \in written)
                   => {"level", "xp", "stats"} \subseteq written
       /\ IsSome(profile') => LevelMatchesXp(profile'[1])]_vars

\* The stat as the claim counts it; a stat the profile does not hold yet
\* counts as 0.
StatValue(stats, key) == IF key \in DOMAIN stats THEN stats[key] ELSE 0

\* stats is old with exactly the stat `key` incremented by exactly 1.
OneStatRaised(old, stats, key) ==
    /\ key \in DOMAIN stats
    /\ stats[key] = StatValue(old, key) + 1
    /\ \A other \in StatKeySet \ {key} :
          /\ other \in DOMAIN stats <=> other \in DOMAIN old
          /\ other \in DOMAIN stats => stats[other] = old[other]

\* C22: on addXP, if the recomputed level is greater than the old level then
\* exactly one of strength, intelligence, motivation is incremented by
\* exactly 1 and the other two are unchanged, and level, xp and stats are
\* written in one update; otherwise stats and level are unchanged and only
\* xp is written.  (The claim as stated.)
C22_LevelUpRaisesOneStat ==
    [][(lastOp'.op = "addXP" /\ IsSome(profile))
       => LET old == profile[1]
              newXP == old.xp + lastOp'.args[1]
              writes == SelectSeq(lastOp'.calls, IsProfileWrite)
              data == writes[1].data
          IN /\ Len(writes) = 1
             /\ IF calculateLevel(newXP) > old.level
                THEN /\ DOMAIN data = {"level", "xp", "stats"}
                     /\ data.level = calculateLevel(newXP)
                     /\ data.xp = newXP
                     /\ \E key \in StatKeySet : OneStatRaised(old.stats, data.stats, key)
                     /\ writes[1].ok => profile'[1] = Merge(old, data)
                ELSE /\ DOMAIN data = {"xp"}
                     /\ data.xp = newXP
                     /\ profile'[1].stats = old.stats
                     /\ profile'[1].level = old.level]_vars

\* C13: after any sequence of createObjective, updateObjective and
\* incrementProgress calls (with any amount), every objective in the store
\* satisfies 0 <= current_value <= target_value.  (The claim as stated.)
C13_ObjectiveProgressInRange ==
    \A i \in 1..Len(objectives) :
        /\ 0 <= objectives[i].current_value
        /\ objectives[i].current_value <= objectives[i].target_value

\* C19: deleting an objective or a schedule that a mission references sets
\* that mission's objective_id / schedule_id to null and leaves the mission
\* row and all its other fields in place; no mission is ever deleted as a
\* consequence of deleting an objective or a schedule.
C19_DeleteNullsReference ==
    [][(lastOp'.op \in {"deleteObjective", "deleteSchedule"})
       => /\ Len(dbMissions') = Len(dbMissions)
          /\ \A i \in 1..Len(dbMissions) :
                dbMissions'[i] =
                    IF ~AllOk(lastOp'.calls) THEN dbMissions[i]
                    ELSE IF lastOp'.op = "deleteObjective"
                    THEN [dbMissions[i] EXCEPT !.objective_id =
                            IF @ = Some(lastOp'.id) THEN None ELSE @]
                    ELSE [dbMissions[i] EXCEPT !.schedule_id =
                            IF @ = Some(lastOp'.id) THEN None ELSE @]
          /\ IdsOf(missions') = IdsOf(missions)]_vars

C19_Witness ==
    /\ lastOp.op = "deleteObjective"
    /\ AllOk(lastOp.calls)
    /\ dbObjectives = <<>>
    /\ Len(dbMissions) = 1
    /\ dbMissions[1].objective_id = None
    /\ IsSome(dbMissions[1].schedule_id)
    /\ Len(missions) = 1
    /\ missions[1].objective_id = Some(lastOp.id)

\* C20: mission history is append-only: once a mission_history entry exists,
\* no store operation (createMission, updateMission, deleteMission,
\* markMissionComplete, generateDailyMissions) modifies or removes it.
\* (The claim as stated.)
C20_HistoryAppendOnly ==
    [][/\ Len(dbHistory') >= Len(dbHistory)
       /\ SubSeq(dbHistory', 1, Len(dbHistory)) = dbHistory]_vars

(***************************************************************************)
(* Claims about the forms (SpecForms).                                     *)
(***************************************************************************)
IsObjectiveCreation(c) == c.table = "objectives" /\ c.verb = "insert"

IsScheduleCreation(c) == c.table = "schedules" /\ c.verb = "insert"

\* C21: no objective-creation request with target_value < 1 and no
\* schedule-creation request with end_date earlier than start_date ever
\* reaches the remote store: every UI path that creates an objective or a
\* schedule rejects such input before calling createObjective or
\* createSchedule.  (The claim as stated.)
C21_InvalidInputNeverSent ==
    \A k \in 1..Len(lastOp.calls) :
        LET c == lastOp.calls[k]
        IN /\ IsObjectiveCreation(c) => c.data.target_value >= 1
           /\ IsScheduleCreation(c)
              => (IsSome(c.data.end_date) => c.data.end_date[1] >= c.data.start_date)


\* The error field of the store that issued request c is set.
ErrorSurfaced(c) ==
    CASE c.table \in {"missions", "mission_history"} -> error' # Null
      [] c.table = "profiles" -> profileError' # Null
      [] c.table = "objectives" -> objectivesError' # Null
      [] c.table = "schedules" -> schedulesError' # Null

\* C24: a failed remote request surfaces as a local error state: when a
\* store operation finishes and any remote request it issued failed, the
\* store's error field is non-null; in particular after generateDailyMissions
\* returns, error is set if any of its three creation requests failed.  (The
\* claim as stated.)
C24_FailureSurfacesAsError ==
    [][\A k \in 1..Len(lastOp'.calls) :
          ~lastOp'.calls[k].ok => ErrorSurfaced(lastOp'.calls[k])]_vars

\* The history entries that record the creation of mission id.
CreatedEntries(history, id) ==
    {k \in 1..Len(history) :
        /\ history[k].mission_id = id
        /\ history[k].action = "created"
        /\ history[k].new_status = "pending"}

\* C25: every mission successfully created through createMission (manually
\* or by generateDailyMissions) gets exactly one mission_history entry with
\* action created and new_status pending.  (The claim as stated.)
C25_CreatedEntryPerMission ==
    \A i \in 1..Len(dbMissions) :
        Cardinality(CreatedEntries(dbHistory, dbMissions[i].id)) = 1

\* C28: every store operation that sets loading to true sets it back to
\* false by the time it returns, whatever the outcome (success, remote
\* error, or target record not found in the local list): no operation
\* returns with loading still true.  (The claim as stated.)
C28_LoadingResetOnReturn ==
    ~loading /\ ~profileLoading /\ ~objectivesLoading /\ ~schedulesLoading

(***************************************************************************)
(* Claims about overlapping calls (SpecOverlap, SpecToggle).               *)
(***************************************************************************)
\* No call is at an await: each has returned or was never made.
AllReturned == \A p \in Calls : running[p].pc \in {"idle", "done"}

\* C23: profile.xp is monotonically non-decreasing: over any execution of
\* mission completions and profile updates, each successive value of the
\* profile's xp is greater than or equal to the previous one.  (The claim as
\* stated.)
C23_XpNeverDecreases ==
    [][/\ (IsSome(profile) /\ IsSome(profile'))
          => profile'[1].xp >= profile[1].xp
       /\ dbProfile'.xp >= dbProfile.xp]_vars

\* C26: if markMissionComplete is invoked for two different missions with
\* rewards r1 and r2 and the remote calls of the two invocations overlap,
\* then once both have finished the profile's xp equals the initial xp +
\* r1 + r2, in the local store and in the remote row: no grant is lost or
\* overwritten.  (The claim as stated, for invocations none of whose
\* requests failed.)
C26_OverlappingGrantsBothCount ==
    (/\ \A p \in Calls : /\ running[p].op = "markMissionComplete"
                         /\ running[p].pc = "done"
                         /\ ~running[p].failed
     /\ running[1].id # running[2].id)
    => /\ IsSome(profile)
       /\ profile[1].xp = InitialProfile.xp + running[1].amount + running[2].amount
       /\ dbProfile.xp = InitialProfile.xp + running[1].amount + running[2].amount

\* C27: the remote profiles row satisfies level = levelFromXP(xp) after any
\* set of addXP calls has completed, including calls whose remote updates
\* overlap (one writing level+xp+stats, the other writing xp alone).  (The
\* claim as stated.)
C27_RemoteLevelMatchesXp ==
    AllReturned => LevelMatchesXp(dbProfile)

\* The toggleSchedule calls that have returned with their update done.
SuccessfulToggles ==
    {p \in Calls : /\ running[p].op = "toggleSchedule"
                   /\ running[p].pc = "done"
                   /\ ~running[p].failed}

\* C29: toggleSchedule flips is_active: after n successful toggleSchedule
\* calls on the same schedule, is_active equals the original value (true, as
\* created) when n is even and its negation when n is odd, also when a
\* second call is issued before the first call's remote response has been
\* applied.  (The claim as stated.)
C29_ToggleFlips ==
    (AllReturned /\ Len(schedules) = 1 /\ Len(dbSchedules) = 1)
    => LET n == Cardinality(SuccessfulToggles)
       IN /\ schedules[1].is_active = (n % 2 = 0)
          /\ dbSchedules[1].is_active = (n % 2 = 0)

(***************************************************************************)
(* Claims about the pure functions (SpecPure).                             *)
(***************************************************************************)

\* C5: selectDifficulty(10, {10,10,10}) returns hard, and
\* selectDifficulty(2, {0,0,0}) returns easy.  (The claim as stated.)
C5_SelectDifficultyExamples ==
    Returned("selectDifficulty") =>
        /\ (/\ pureCall.call.userLevel = 10
            /\ pureCall.call.stats =
                 [strength |-> 10, intelligence |-> 10, motivation |-> 10])
           => pureCall.result = "hard"
        /\ (pureCall.call.userLevel = 2 /\ pureCall.call.stats = NoStats)
           => pureCall.result = "easy"

\* C6: selectDifficulty returns easy if level <= 3 or total/30 < 0.5 (total
\* < 15); otherwise medium if level <= 7 or total/30 < 1.5 (total < 45);
\* otherwise hard: hard exactly when level > 7 and the stat total is >= 45.
C6_SelectDifficultyRule ==
    Returned("selectDifficulty") =>
        LET level == pureCall.call.userLevel
            total == pureCall.call.stats.strength
                     + pureCall.call.stats.intelligence
                     + pureCall.call.stats.motivation
            easy == level <= 3 \/ total < 15
            medium == ~easy /\ (level <= 7 \/ total < 45)
        IN /\ pureCall.result \in Difficulties
           /\ (pureCall.result = "easy") <=> easy
           /\ (pureCall.result = "medium") <=> medium
           /\ (pureCall.result = "hard") <=> (~easy /\ ~medium)
           /\ (pureCall.result = "hard") <=> (level > 7 /\ total >= 45)

C6_Witness ==
    /\ Returned("selectDifficulty")
    /\ pureCall.result = "hard"
    /\ pureCall.call.userLevel = 8

\* C7: for every non-negative integer xp, calculateLevel(xp) is the unique
\* L >= 1 with 100*(L-1)^2 <= xp < 100*L^2; it is monotonic non-decreasing
\* in xp and yields 1, 2, 3 at xp = 0, 100, 400.
C7_CalculateLevel ==
    Returned("calculateLevel") =>
        LET xp == pureCall.call.xp
            L == pureCall.result
        IN /\ L >= 1
           /\ 100 * (L - 1) * (L - 1) <= xp
           /\ xp < 100 * L * L
           /\ \A y \in 0..xp : calculateLevel(y) <= L
           /\ (xp = 0 => L = 1)
           /\ (xp = 100 => L = 2)
           /\ (xp = 400 => L = 3)

C7_Witness ==
    /\ Returned("calculateLevel")
    /\ pureCall.call.xp = 400
    /\ pureCall.result = 3

\* C8: getXPReward(difficulty, level) = floor(base * (1 + (level-1)/10) *
\* mult) with base easy=10, medium=26, hard=51 and mult easy=1, medium=1.5,
\* hard=2 in exact arithmetic; the result is a non-negative integer, with
\* getXPReward(easy, 1) = 10 and getXPReward(hard, 1) = 102.
C8_GetXPReward ==
    Returned("getXPReward") =>
        LET d == pureCall.call.difficulty
            level == pureCall.call.userLevel
            r == pureCall.result
            \* base * mult, doubled to stay in the integers: 10*1, 26*1.5, 51*2
            twiceBaseMult == IF d = "easy" THEN 20 ELSE IF d = "medium" THEN 78 ELSE 204
            \* 20 * base * (1 + (level-1)/10) * mult
            exact20 == twiceBaseMult * (10 + (level - 1))
        IN /\ r \in Nat
           /\ 20 * r <= exact20
           /\ exact20 < 20 * (r + 1)
           /\ (d = "easy" /\ level = 1 => r = 10)
           /\ (d = "hard" /\ level = 1 => r = 102)

C8_Witness ==
    /\ Returned("getXPReward")
    /\ pureCall.call.difficulty = "medium"
    /\ pureCall.call.userLevel = 4
    /\ pureCall.result = 50

\* C9: checkScheduleAvailability(schedules) at time now is true if and only
\* if some schedule has is_active true, now >= start_date, end_date absent
\* or now <= end_date, and the hour of now in [8, 20]; hence false when every
\* schedule is inactive and false at any hour outside 8-20.
C9_CheckScheduleAvailability ==
    Returned("checkScheduleAvailability") =>
        LET list == pureCall.call.schedules
            now == pureCall.call.now
            hour == now % 24
            passes(sch) ==
                /\ sch.is_active = TRUE
                /\ now >= 24 * sch.start_date
                /\ (sch.end_date = None \/ now <= 24 * sch.end_date[1])
                /\ hour \in 8..20
        IN /\ pureCall.result <=> \E i \in 1..Len(list) : passes(list[i])
           /\ (\A i \in 1..Len(list) : ~list[i].is_active)
              => pureCall.result = FALSE
           /\ hour \notin 8..20 => pureCall.result = FALSE

C9_Witness ==
    /\ Returned("checkScheduleAvailability")
    /\ pureCall.result = TRUE
    /\ Len(pureCall.call.schedules) = 2
    /\ ~pureCall.call.schedules[1].is_active
    /\ pureCall.call.now % 24 = 20

\* C30: the level that the ProgressStats level-progression series reports
\* for a cumulative XP total x equals calculateLevel(x) = floor(sqrt(x/100))
\* + 1, the level the profile store derives from the same xp.  (The claim as
\* stated.)
C30_ProgressionLevelIsCalculateLevel ==
    Returned("levelProgression") =>
        \A k \in 1..Len(pureCall.result) :
            pureCall.result[k].level = calculateLevel(pureCall.result[k].xp)

====
